---------------------------- MODULE Spec2Model ----------------------------
(***************************************************************************)
(* Task-Kit: a work-stealing runner (Runner, Worker, TaskQueueSet,         *)
(* TaskQueue) and the polled Task / State primitive it drives.             *)
(*                                                                         *)
(* The specifications share the variables of this module:                  *)
(*   Spec       the runner: one submitting thread (Runner::run, then       *)
(*              Runner::finish) and NumWorkers worker threads, every lock  *)
(*              acquisition of the source being one step;                  *)
(*   FairSpec   Spec with every thread scheduled fairly;                   *)
(*   QueueSpec  one TaskQueue and one thread calling split();              *)
(*   TaskSpec   one chain of tasks built with Task::then, driven through   *)
(*              exec and poll;                                             *)
(*   ChainSpec  TaskSpec on chains that mix then / map and recover / catch;*)
(*   WaitSpec   the chains of TaskSpec driven by Task::wait;               *)
(*   JoinSpec   a.join(b) of two tasks, driven through exec and poll;      *)
(*   StateSpec  one State value: and, and_then, or, or_else, take.         *)
(***************************************************************************)
EXTENDS Integers, Sequences, FiniteSets, TLC

\* ------------------------------------------------------------------ bounds
NumWorkers == 2      \* n of Runner::with_worker_count(n)
MaxTasks == 4        \* tasks handed to Runner::run before finish
MaxSteps == 2        \* exec calls a submitted task needs before it returns true
MaxThen == 3         \* continuations chained with Task::then
MaxCount == 2        \* invocations after which the first task's closure settles
MaxVal == 2          \* payloads are 1..MaxVal

Workers == 1..NumWorkers
TaskIds == 1..MaxTasks
NoTask == 0

VARIABLES
  \* ---- runner
  queues,      \* TaskQueue of each worker: the Vec behind its RwLock
  poisoned,    \* whether that RwLock is poisoned (a writer panicked inside it)
  is_running,  \* Worker.is_running of each worker
  wpc,         \* position of each worker thread in WorkerInner::run
  held,        \* the task a worker popped and is executing (NoTask: none)
  toScan,      \* queues steal_from_rand_queue has not yet inspected
  victim,      \* the queue split() is working on
  midpoint,    \* split()'s midpoint, computed under the read lock
  batch,       \* try_steal's local `tasks`
  left,        \* exec calls each task still needs (0: settled or not submitted)
  submitted,   \* number of tasks handed to Runner::run so far
  mainPc,      \* position of the thread that owns the Runner
  finIdx,      \* the worker Runner::finish is at
  retry,       \* ghost: the inner loop's last exec() returned false
  iter,        \* ghost: what next() and try_steal() returned in this iteration
  locks,       \* the lock guards each thread holds between two of its steps
  \* ---- task chain
  tstate,      \* Task.state of every task of the chain
  count,       \* the leaf closure's counter (StateSpec: take calls made)
  calls,       \* ghost: invocations of each task's step closure
  gcalls,      \* ghost: invocations of each continuation
  garg,        \* ghost: the argument of the last invocation of each continuation
  order,       \* ghost: the inputs a join stepped in its last step, in order
  cfg,         \* the chain under test: leaf behaviour and continuation kinds
               \* (JoinSpec: the two inputs; StateSpec: receiver and argument)
  last,        \* the last call on the composite and what it returned
  failed,      \* a call panicked
  execTrue,    \* ghost: exec() calls on the composite that returned true (0, 1, many)
  tphase       \* "off" under Spec; "run" while the task or State value is in
               \* use, "returned" after wait, "moved" once a State was consumed

runnerVars == <<queues, poisoned, is_running, wpc, held, toScan, victim,
                midpoint, batch, left, submitted, mainPc, finIdx, retry, iter,
                locks>>
taskVars == <<tstate, count, calls, gcalls, garg, order, cfg, last, failed,
              execTrue, tphase>>
vars == <<runnerVars, taskVars>>


\* ================================================================== runner
\* ---- TaskQueue: the operations on the Vec, each under the queue's lock

\* TaskQueue::insert: push at the tail
TQInsert(q, t) == Append(q, t)

\* TaskQueue::append: move a batch to the tail, in its order
TQAppendFront(q, ts) == ts \o q

TQAppend(q, ts) == q \o ts

\* TaskQueue::next: the head, and what remains after remove(0)
TQHead(q) == Head(q)
TQRest(q) == Tail(q)

\* TaskQueue::split, first lock (read): the midpoint, len / 2
SplitMidpointUp(q) == (Len(q) + 1) \div 2

SplitMidpoint(q) == Len(q) \div 2

\* Vec::split_off(at): asserts at <= len, returns [at, len), keeps [0, at)
SplitOffPanics(q, at) == at > Len(q)
SplitOffTaken(q, at) == SubSeq(q, at + 1, Len(q))
SplitOffKept(q, at) == SubSeq(q, 1, at)

\* steal_from_rand_queue's predicate on a queue: q.len() > 1
StealCandidateNonEmpty(q) == Len(q) > 0

StealCandidate(q) == Len(q) > 1

Range(s) == {s[i] : i \in 1..Len(s)}

\* ---- locks: the RwLock of each TaskQueue and of the TaskQueueSet, the Mutex
\* of each worker's running flag. Every step of a thread takes the locks of
\* one call of the source and drops the guards that end with it; `locks`
\* holds the guards that are still alive when the step ends.
MainThread == 0
Threads == Workers \cup {MainThread}

QueueLock(q, m) == [obj |-> <<"queue", q>>, mode |-> m]
SetLock(m) == [obj |-> <<"set", 0>>, mode |-> m]
FlagLock(w) == [obj |-> <<"flag", w>>, mode |-> "w"]

\* a writer excludes everyone, readers share
Conflicts(a, b) == a.obj = b.obj /\ (a.mode = "w" \/ b.mode = "w")

\* thread t gets every lock of L at once: no other thread holds a guard that
\* conflicts
CanAcquire(t, L) ==
  \A u \in Threads \ {t} : \A a \in L, b \in locks[u] : ~Conflicts(a, b)

\* TaskQueue::next: the guard `queue` is a local of next() and is dropped when
\* it returns
NextGuardKept(w) == {QueueLock(w, "w")}

NextGuardAfter(w) == {}

\* TaskQueue::split: the write guard is a temporary of the last expression
SplitGuardKept(v) == {QueueLock(v, "w")}

SplitGuardAfter(v) == {}

\* steal_from_rand_queue: the guard `task_queues` (read lock of the set) lives
\* from the first line to the return, through the scan and split(); pc is
\* where the step leaves the worker
StealGuardAfter(pc) ==
  IF pc \in {"steal", "split_read", "split_write"} THEN {SetLock("r")} ELSE {}

\* a loop iteration of WorkerInner::run that has not called next() yet
IterStart == [next |-> "-", steal |-> "-"]

\* ---- the state after Runner::with_worker_count(NumWorkers)
RunnerInit ==
  /\ queues = [w \in Workers |-> <<>>]
  /\ poisoned = [w \in Workers |-> FALSE]
  /\ is_running = [w \in Workers |-> TRUE]
  /\ wpc = [w \in Workers |-> "next"]
  /\ held = [w \in Workers |-> NoTask]
  /\ toScan = [w \in Workers |-> {}]
  /\ victim = [w \in Workers |-> w]
  /\ midpoint = [w \in Workers |-> 0]
  /\ batch = [w \in Workers |-> <<>>]
  /\ left = [t \in TaskIds |-> 0]
  /\ submitted = 0
  /\ mainPc = "run"
  /\ finIdx = 1
  /\ retry = [w \in Workers |-> FALSE]
  /\ iter = [w \in Workers |-> IterStart]
  /\ locks = [t \in Threads |-> {}]

\* ---- the thread that owns the Runner

\* Runner::run -> TaskQueueSet::push_to_rand_queue: a random queue q, insert
\* under q's write lock; write().unwrap() panics when q is poisoned.
\* k is the number of exec calls the submitted task needs: it settles on its
\* first call, or on its MaxSteps-th.
Run(q, k) ==
  /\ mainPc = "run"
  /\ submitted < MaxTasks
  /\ CanAcquire(MainThread, {SetLock("r"), QueueLock(q, "w")})
  /\ IF poisoned[q]
       THEN /\ mainPc' = "panicked"
            /\ UNCHANGED <<queues, left, submitted>>
       ELSE /\ queues' = [queues EXCEPT ![q] = TQInsert(@, submitted + 1)]
            /\ left' = [left EXCEPT ![submitted + 1] = k]
            /\ submitted' = submitted + 1
            /\ mainPc' = mainPc
  /\ UNCHANGED <<poisoned, is_running, wpc, held, toScan, victim, midpoint,
                 batch, finIdx, retry, iter, taskVars>>
  /\ UNCHANGED locks

\* Runner::finish is entered: no run can follow (finish consumes the Runner)
CallFinish ==
  /\ mainPc = "run"
  /\ mainPc' = "finish_flag"
  /\ UNCHANGED <<queues, poisoned, is_running, wpc, held, toScan, victim,
                 midpoint, batch, left, submitted, finIdx, retry, iter, taskVars>>
  /\ UNCHANGED locks

\* Worker::finish, first line: *is_running.lock().unwrap() = false
FinishFlag ==
  /\ mainPc = "finish_flag"
  /\ CanAcquire(MainThread, {FlagLock(finIdx)})
  /\ is_running' = [is_running EXCEPT ![finIdx] = FALSE]
  /\ mainPc' = "finish_join"
  /\ UNCHANGED <<queues, poisoned, wpc, held, toScan, victim, midpoint,
                 batch, left, submitted, finIdx, retry, iter, taskVars>>
  /\ UNCHANGED locks

\* Worker::finish, second line: inner_handle.join().unwrap() returns once the
\* thread has ended, and panics when the thread ended by a panic
FinishJoin ==
  /\ mainPc = "finish_join"
  /\ wpc[finIdx] \in {"exited", "panicked"}
  /\ IF wpc[finIdx] = "panicked"
       THEN mainPc' = "panicked" /\ finIdx' = finIdx
       ELSE IF finIdx = NumWorkers
              THEN mainPc' = "done" /\ finIdx' = finIdx
              ELSE mainPc' = "finish_flag" /\ finIdx' = finIdx + 1
  /\ UNCHANGED <<queues, poisoned, is_running, wpc, held, toScan, victim,
                 midpoint, batch, left, submitted, retry, iter, taskVars>>
  /\ UNCHANGED locks

\* ---- a worker thread: WorkerInner::run

\* self.task_queue.next(): under the own queue's write lock
WNext(w) ==
  /\ wpc[w] = "next"
  /\ CanAcquire(w, {QueueLock(w, "w")})
  /\ IF poisoned[w]
       THEN /\ wpc' = [wpc EXCEPT ![w] = "panicked"]
            /\ UNCHANGED <<queues, held, toScan, iter>>
       ELSE IF Len(queues[w]) > 0
         THEN /\ held' = [held EXCEPT ![w] = TQHead(queues[w])]
              /\ queues' = [queues EXCEPT ![w] = TQRest(@)]
              /\ wpc' = [wpc EXCEPT ![w] = "exec"]
              /\ iter' = [iter EXCEPT ![w].next = "some"]
              /\ UNCHANGED toScan
         ELSE /\ wpc' = [wpc EXCEPT ![w] = "steal"]
              /\ toScan' = [toScan EXCEPT ![w] = Workers]
              /\ iter' = [iter EXCEPT ![w].next = "none"]
              /\ UNCHANGED <<queues, held>>
  /\ UNCHANGED <<poisoned, is_running, victim, midpoint, batch, left,
                 submitted, mainPc, finIdx, retry, taskVars>>
  /\ locks' = [locks EXCEPT ![w] = NextGuardAfter(w)]

\* one task.exec() of the inner loop: true (the task settled) leaves the loop,
\* drops the task and starts the next iteration; false calls exec again
WExecRequeue(w) ==
  /\ wpc[w] = "exec"
  /\ left' = [left EXCEPT ![held[w]] = @ - 1]
  /\ IF left[held[w]] = 1
       THEN queues' = queues
       ELSE queues' = [queues EXCEPT ![w] = TQInsert(@, held[w])]
  /\ held' = [held EXCEPT ![w] = NoTask]
  /\ wpc' = [wpc EXCEPT ![w] = "next"]
  /\ retry' = [retry EXCEPT ![w] = FALSE]
  /\ iter' = [iter EXCEPT ![w] = IterStart]
  /\ UNCHANGED <<poisoned, is_running, toScan, victim, midpoint, batch,
                 submitted, mainPc, finIdx, taskVars>>
  /\ UNCHANGED locks

WExec(w) ==
  /\ wpc[w] = "exec"
  /\ left' = [left EXCEPT ![held[w]] = @ - 1]
  /\ IF left[held[w]] = 1
       THEN /\ held' = [held EXCEPT ![w] = NoTask]
            /\ wpc' = [wpc EXCEPT ![w] = "next"]
            /\ retry' = [retry EXCEPT ![w] = FALSE]
            /\ iter' = [iter EXCEPT ![w] = IterStart]
       ELSE /\ retry' = [retry EXCEPT ![w] = TRUE]
            /\ UNCHANGED <<held, wpc, iter>>
  /\ UNCHANGED <<queues, poisoned, is_running, toScan, victim, midpoint, batch,
                 submitted, mainPc, finIdx, taskVars>>
  /\ UNCHANGED locks

\* steal_from_rand_queue: the next queue q of the shuffled list, q.len() > 1
\* read under q's read lock (read().unwrap() panics when q is poisoned).
\* The first candidate is split; none left: an empty batch, try_steal is false.
WScan(w, q) ==
  /\ wpc[w] = "steal"
  /\ q \in toScan[w]
  /\ CanAcquire(w, {SetLock("r"), QueueLock(q, "r")})
  /\ IF poisoned[q]
       THEN /\ wpc' = [wpc EXCEPT ![w] = "panicked"]
            /\ toScan' = [toScan EXCEPT ![w] = {}]
            /\ UNCHANGED <<victim, iter>>
       ELSE IF StealCandidate(queues[q])
         THEN /\ victim' = [victim EXCEPT ![w] = q]
              /\ wpc' = [wpc EXCEPT ![w] = "split_read"]
              /\ toScan' = [toScan EXCEPT ![w] = {}]
              /\ UNCHANGED iter
         ELSE /\ toScan' = [toScan EXCEPT ![w] = @ \ {q}]
              /\ wpc' = [wpc EXCEPT ![w] =
                           IF toScan[w] = {q} THEN "is_running" ELSE "steal"]
              /\ iter' = [iter EXCEPT ![w].steal =
                           IF toScan[w] = {q} THEN "empty" ELSE @]
              /\ UNCHANGED victim
  /\ UNCHANGED <<queues, poisoned, is_running, held, midpoint, batch, left,
                 submitted, mainPc, finIdx, retry, taskVars>>
  /\ locks' = [locks EXCEPT ![w] = StealGuardAfter(wpc'[w])]

\* TaskQueue::split, the block under the read lock: len < 2 returns an empty
\* batch (try_steal is false), else the midpoint is kept and the lock released.
\* split()'s locals end with the call (victim and midpoint are reset).
WSplitRead(w) ==
  /\ wpc[w] = "split_read"
  /\ CanAcquire(w, {QueueLock(victim[w], "r")})
  /\ IF poisoned[victim[w]]
       THEN /\ wpc' = [wpc EXCEPT ![w] = "panicked"]
            /\ victim' = [victim EXCEPT ![w] = w]
            /\ UNCHANGED <<midpoint, iter>>
       ELSE IF Len(queues[victim[w]]) < 2
         THEN /\ wpc' = [wpc EXCEPT ![w] = "is_running"]
              /\ victim' = [victim EXCEPT ![w] = w]
              /\ iter' = [iter EXCEPT ![w].steal = "empty"]
              /\ UNCHANGED midpoint
         ELSE /\ midpoint' = [midpoint EXCEPT ![w] = SplitMidpoint(queues[victim[w]])]
              /\ wpc' = [wpc EXCEPT ![w] = "split_write"]
              /\ UNCHANGED <<victim, iter>>
  /\ UNCHANGED <<queues, poisoned, is_running, held, toScan, batch,
                 left, submitted, mainPc, finIdx, retry, taskVars>>
  /\ locks' = [locks EXCEPT ![w] = StealGuardAfter(wpc'[w])]

\* TaskQueue::split, last line: write().unwrap().split_off(midpoint). A panic
\* of split_off unwinds through the write guard and poisons the lock.
\* try_steal then tests tasks.len() > 0.
WSplitWrite(w) ==
  /\ wpc[w] = "split_write"
  /\ CanAcquire(w, {QueueLock(victim[w], "w")})
  /\ IF poisoned[victim[w]]
       THEN /\ wpc' = [wpc EXCEPT ![w] = "panicked"]
            /\ UNCHANGED <<queues, poisoned, batch, iter>>
       ELSE IF SplitOffPanics(queues[victim[w]], midpoint[w])
         THEN /\ poisoned' = [poisoned EXCEPT ![victim[w]] = TRUE]
              /\ wpc' = [wpc EXCEPT ![w] = "panicked"]
              /\ UNCHANGED <<queues, batch, iter>>
         ELSE /\ batch' = [batch EXCEPT ![w] = SplitOffTaken(queues[victim[w]], midpoint[w])]
              /\ queues' = [queues EXCEPT ![victim[w]] = SplitOffKept(@, midpoint[w])]
              /\ wpc' = [wpc EXCEPT ![w] =
                           IF Len(SplitOffTaken(queues[victim[w]], midpoint[w])) > 0
                             THEN "append" ELSE "is_running"]
              /\ iter' = [iter EXCEPT ![w].steal =
                           IF Len(SplitOffTaken(queues[victim[w]], midpoint[w])) > 0
                             THEN "batch" ELSE "empty"]
              /\ UNCHANGED poisoned
  /\ victim' = [victim EXCEPT ![w] = w]
  /\ midpoint' = [midpoint EXCEPT ![w] = 0]
  /\ UNCHANGED <<is_running, held, toScan, left, submitted,
                 mainPc, finIdx, retry, taskVars>>
  /\ locks' = [locks EXCEPT ![w] = SplitGuardAfter(victim[w])]

\* try_steal: self.task_queue.append(&mut tasks) under the own queue's write
\* lock, then the next iteration; when that lock is poisoned the thread panics
\* and `tasks` is dropped
WAppend(w) ==
  /\ wpc[w] = "append"
  /\ CanAcquire(w, {QueueLock(w, "w")})
  /\ IF poisoned[w]
       THEN /\ wpc' = [wpc EXCEPT ![w] = "panicked"]
            /\ UNCHANGED <<queues, iter>>
       ELSE /\ queues' = [queues EXCEPT ![w] = TQAppend(@, batch[w])]
            /\ wpc' = [wpc EXCEPT ![w] = "next"]
            /\ iter' = [iter EXCEPT ![w] = IterStart]
  /\ batch' = [batch EXCEPT ![w] = <<>>]
  /\ UNCHANGED <<poisoned, is_running, held, toScan, victim, midpoint, left,
                 submitted, mainPc, finIdx, retry, taskVars>>
  /\ locks' = [locks EXCEPT ![w] = {}]

\* if !*self.is_running.lock().unwrap() { break; } yield_now();
WCheckRunningNoFlag(w) ==
  /\ wpc[w] = "is_running"
  /\ CanAcquire(w, {FlagLock(w)})
  /\ wpc' = [wpc EXCEPT ![w] = "exited"]
  /\ UNCHANGED <<queues, poisoned, is_running, held, toScan, victim, midpoint,
                 batch, left, submitted, mainPc, finIdx, retry, iter, taskVars>>
  /\ locks' = [locks EXCEPT ![w] = {}]

WCheckRunning(w) ==
  /\ wpc[w] = "is_running"
  /\ CanAcquire(w, {FlagLock(w)})
  /\ wpc' = [wpc EXCEPT ![w] = IF is_running[w] THEN "next" ELSE "exited"]
  /\ iter' = [iter EXCEPT ![w] = IF is_running[w] THEN IterStart ELSE @]
  /\ UNCHANGED <<queues, poisoned, is_running, held, toScan, victim, midpoint,
                 batch, left, submitted, mainPc, finIdx, retry, taskVars>>
  /\ locks' = [locks EXCEPT ![w] = {}]

Worker(w) ==
  \/ WNext(w)
  \/ WExec(w)
  \/ \E q \in Workers : WScan(w, q)
  \/ WSplitRead(w)
  \/ WSplitWrite(w)
  \/ WAppend(w)
  \/ WCheckRunning(w)

Main ==
  \/ \E q \in Workers, k \in {1, MaxSteps} : Run(q, k)
  \/ CallFinish
  \/ FinishFlag
  \/ FinishJoin

\* the task chain is not driven under Spec
TaskIdle ==
  /\ tstate = <<>>
  /\ count = 0
  /\ calls = <<>>
  /\ gcalls = <<>>
  /\ garg = <<>>
  /\ order = <<>>
  /\ cfg = <<>>
  /\ last = <<>>
  /\ failed = FALSE
  /\ execTrue = 0
  /\ tphase = "off"

Init == RunnerInit /\ TaskIdle

Next == Main \/ \E w \in Workers : Worker(w)

Spec == Init /\ [][Next]_vars

\* threads are scheduled fairly: a thread that can take a step takes one
FairSpec == Spec /\ WF_vars(Main) /\ \A w \in Workers : WF_vars(Worker(w))


\* ========================================================== runner: claims

Occurrences(s, t) == Cardinality({i \in 1..Len(s) : s[i] = t})

\* the places of task t at worker w: its queue, its stolen batch, its hands
PlacesAt(w, t) ==
  Occurrences(queues[w], t) + Occurrences(batch[w], t)
    + (IF held[w] = t THEN 1 ELSE 0)

RECURSIVE PlacesUpTo(_, _)
PlacesUpTo(n, t) == IF n = 0 THEN 0 ELSE PlacesAt(n, t) + PlacesUpTo(n - 1, t)

PlaceCount(t) == PlacesUpTo(NumWorkers, t)

Submitted(t) == t <= submitted
Settled(t) == Submitted(t) /\ left[t] = 0
Unsettled(t) == Submitted(t) /\ left[t] > 0
AllSettled == \A t \in TaskIds : Submitted(t) => Settled(t)

\* C1: once Runner::finish has returned, every task submitted with run has
\* settled (its exec has returned true); none is left in a queue, in a stolen
\* batch or half-executed.
C1_FinishSettlesAll == mainPc = "done" => AllSettled

\* C2: under fair scheduling, once finish is called every submitted task
\* eventually settles, every worker thread eventually exits and finish
\* eventually returns.
C2_FinishCompletes ==
  (mainPc # "run") ~>
    (mainPc = "done" /\ AllSettled /\ \A w \in Workers : wpc[w] = "exited")

\* C3: no submitted task is lost or duplicated: every submitted task that has
\* not settled is in exactly one place (one queue, one stolen batch, or the
\* hands of one worker).
C3_ExactlyOnePlace == \A t \in TaskIds : Unsettled(t) => PlaceCount(t) = 1

\* C4: every interleaving of split, next and insert on a queue completes
\* normally: no queue operation panics, in a worker or in the submitter, and
\* no queue lock is left poisoned.
C4_QueueOpsComplete ==
  /\ \A w \in Workers : wpc[w] # "panicked" /\ ~poisoned[w]
  /\ mainPc # "panicked"

\* C5: a task a worker has popped is never put back into a queue or a batch:
\* the worker stays on it, executing no other task and neither popping nor
\* stealing, until its exec returns true.
C5_StaysOnTask ==
  [][\A w \in Workers :
       /\ (held[w] # NoTask) <=> (wpc[w] = "exec")
       /\ held[w] # NoTask =>
            /\ \A v \in Workers :
                 /\ Occurrences(queues'[v], held[w]) = 0
                 /\ Occurrences(batch'[v], held[w]) = 0
            /\ \/ held'[w] = held[w] /\ wpc'[w] = "exec" /\ left'[held[w]] > 0
               \/ held'[w] = NoTask /\ wpc'[w] = "next" /\ left'[held[w]] = 0
     ]_vars

\* C5 witness: a worker whose exec returned false is still on the same task
C5_Witness == \E w \in Workers : retry[w] /\ held[w] # NoTask /\ left[held[w]] > 0

\* C6: a worker thread exits only from an iteration in which next() returned
\* nothing, the steal attempt returned an empty batch and the running flag
\* then read false; it never exits while its flag is true or while it holds
\* a task.
C6_ExitOnlyWhenIdleAndStopped ==
  [][\A w \in Workers :
       (wpc'[w] = "exited" /\ wpc[w] # "exited") =>
         /\ iter[w] = [next |-> "none", steal |-> "empty"]
         /\ ~is_running[w]
         /\ held[w] = NoTask
         /\ batch[w] = <<>>
     ]_vars

\* C6 witness: a worker has exited, and another found its flag still true
\* after an empty steal and went round again
C6_Witness ==
  \E w, v \in Workers :
    /\ wpc[w] = "exited"
    /\ is_running[v] /\ wpc[v] = "is_running"


\* ---- one TaskQueue with one caller: split() runs with nothing between its
\* read and its write. Thread 1 is the caller (steal_from_rand_queue, which
\* has found the queue) and queue 1 the queue; the caller drops what split
\* returned and calls again.
QueueContents ==
  {q \in UNION {[1..n -> TaskIds] : n \in 0..MaxTasks} :
     \A i, j \in 1..Len(q) : q[i] = q[j] => i = j}

QueueSpecInit ==
  /\ queues \in {qs \in [Workers -> QueueContents] :
                   \A w \in Workers \ {1} : qs[w] = <<>>}
  /\ poisoned = [w \in Workers |-> FALSE]
  /\ is_running = [w \in Workers |-> TRUE]
  /\ wpc = [w \in Workers |-> IF w = 1 THEN "split_read" ELSE "exited"]
  /\ held = [w \in Workers |-> NoTask]
  /\ toScan = [w \in Workers |-> {}]
  /\ victim = [w \in Workers |-> w]
  /\ midpoint = [w \in Workers |-> 0]
  /\ batch = [w \in Workers |-> <<>>]
  /\ left = [t \in TaskIds |-> IF t \in Range(queues[1]) THEN 1 ELSE 0]
  /\ submitted = MaxTasks
  /\ mainPc = "run"
  /\ finIdx = 1
  /\ retry = [w \in Workers |-> FALSE]
  /\ iter = [w \in Workers |-> IterStart]
  /\ locks = [t \in Threads |-> IF t = 1 THEN {SetLock("r")} ELSE {}]
  /\ TaskIdle

\* split() has returned (an empty batch: "is_running", a batch: "append");
\* the caller drops the batch and calls split() again
SplitAgain ==
  /\ wpc[1] \in {"is_running", "append"}
  /\ Len(queues[1]) > 0
  /\ wpc' = [wpc EXCEPT ![1] = "split_read"]
  /\ batch' = [batch EXCEPT ![1] = <<>>]
  /\ left' = [t \in TaskIds |-> IF t \in Range(queues[1]) THEN 1 ELSE 0]
  /\ iter' = [iter EXCEPT ![1] = IterStart]
  /\ UNCHANGED <<queues, poisoned, is_running, held, toScan, victim, midpoint,
                 submitted, mainPc, finIdx, retry, taskVars>>
  /\ locks' = [locks EXCEPT ![1] = {SetLock("r")}]

QueueNext == WSplitRead(1) \/ WSplitWrite(1) \/ SplitAgain

QueueSpec == QueueSpecInit /\ [][QueueNext]_vars


\* ==================================================================== task
\* ---- State<T, E>: a tag and, for Resolve and Reject, the payload

Pending == [tag |-> "Pending", val |-> 0]
Resolve(v) == [tag |-> "Resolve", val |-> v]
Resolved == [tag |-> "Resolved", val |-> 0]
Reject(e) == [tag |-> "Reject", val |-> e]
Rejected == [tag |-> "Rejected", val |-> 0]

IsPending(st) == st.tag = "Pending"

\* Option<Result<T, E>>
None == [tag |-> "None", val |-> 0]
SomeOk(v) == [tag |-> "Ok", val |-> v]
SomeErr(e) == [tag |-> "Err", val |-> e]

\* State::into_result
IntoResult(st) ==
  CASE st.tag = "Pending" -> None
    [] st.tag = "Resolve" -> SomeOk(st.val)
    [] st.tag = "Resolved" -> None
    [] st.tag = "Reject" -> SomeErr(st.val)
    [] st.tag = "Rejected" -> None

\* State::take: what it returns ...
TakeReturnsLeft(st) ==
  CASE st.tag = "Resolve" -> Resolved
    [] st.tag = "Reject" -> Rejected
    [] OTHER -> st

TakeReturns(st) == st

\* ... and what it leaves in place
TakeLeavesWrongSide(st) ==
  CASE st.tag = "Resolve" -> Rejected
    [] st.tag = "Reject" -> Resolved
    [] OTHER -> st

TakeLeaves(st) ==
  CASE st.tag = "Pending" -> Pending
    [] st.tag = "Resolve" -> Resolved
    [] st.tag = "Resolved" -> Resolved
    [] st.tag = "Reject" -> Rejected
    [] st.tag = "Rejected" -> Rejected

\* the closure given to and_then / or_else, applied to x: cfg.res with x added
\* to its payload
ArgOp(x) ==
  IF cfg.res.tag \in {"Resolve", "Reject"}
    THEN [cfg.res EXCEPT !.val = @ + x]
    ELSE cfg.res

\* State::and, and_then, or, or_else of the receiver st; res is the argument
\* of and / or, ArgOp the closure of and_then / or_else
StateAnd(st, res) == IF st.tag = "Reject" THEN Reject(st.val) ELSE res

StateAndThen(st) ==
  CASE st.tag = "Pending" -> Pending
    [] st.tag = "Resolve" -> ArgOp(st.val)
    [] st.tag = "Resolved" -> Resolved
    [] st.tag = "Reject" -> Reject(st.val)
    [] st.tag = "Rejected" -> Rejected

StateOr(st, res) == IF st.tag = "Resolve" THEN Resolve(st.val) ELSE res

StateOrElse(st) ==
  CASE st.tag = "Pending" -> Pending
    [] st.tag = "Resolve" -> Resolve(st.val)
    [] st.tag = "Resolved" -> Resolved
    [] st.tag = "Reject" -> ArgOp(st.val)
    [] st.tag = "Rejected" -> Rejected

\* ---- the chain under test
\* Task 1 is Task::new(closure): the closure counts its invocations and
\* returns Pending until the cfg.k-th, which returns Resolve(cfg.val) or
\* Reject(cfg.val). Task i > 1 is task (i-1).then(g_i) or, where cfg.op[i]
\* says so, task (i-1).recover(g_i); g_i returns Resolve(2 * r + i), Reject(-i)
\* or Pending, as cfg.g[i] says. Task::map(f) is then with a g_i that returns
\* Resolve, Task::catch(f) is recover with a g_i that returns Reject.
Kinds == {"Resolve", "Reject", "Pending"}

\* g[1] stands for no continuation (task 1 has none) and is left at "Resolve"
Chains ==
  {g \in UNION {[1..n -> Kinds] : n \in 1..(MaxThen + 1)} : g[1] = "Resolve"}

\* the combinator that built task i > 1 from task i - 1: cfg.op[i]
Ops == {"then", "recover"}

AllThen(g) == [i \in 1..Len(g) |-> "then"]

\* chains of Task::then only
Configs ==
  {[k |-> k, out |-> o, val |-> v, g |-> g, op |-> AllThen(g)] :
     k \in 1..MaxCount, o \in {"Resolve", "Reject"}, v \in 1..MaxVal,
     g \in Chains}

Depth == Len(cfg.g)

\* the value a resolving continuation g_i makes of r
ContValue(i, r) == 2 * r + i

\* the continuation g_i applied to r
Cont(i, r) ==
  CASE cfg.g[i] = "Resolve" -> Resolve(ContValue(i, r))
    [] cfg.g[i] = "Reject" -> Reject(0 - i)
    [] cfg.g[i] = "Pending" -> Pending

\* the closure of task 1, invoked for the n-th time
LeafOutcome(n) ==
  IF n = cfg.k
    THEN (IF cfg.out = "Resolve" THEN Resolve(cfg.val) ELSE Reject(cfg.val))
    ELSE Pending

\* The tasks of the chain as one value T: st (Task.state of each), count (the
\* first closure's counter), calls, gcalls, garg (ghosts), failed (a panic
\* unwound through the call). order is used by joins only.
RECURSIVE Exec(_, _), StepClosure(_, _)

\* the closure Task::then builds, run on task i > 1 of T after self.exec():
\* take().into_result().unwrap() on a settled input, then the continuation on
\* Ok and Reject on Err
ThenAfterExecAsRecover(T, i) ==
  IF ~IsPending(T.st[i - 1])
    THEN LET res == IntoResult(TakeReturns(T.st[i - 1]))
             T1 == [T EXCEPT !.st[i - 1] = TakeLeaves(@)]
         IN  CASE res.tag = "None" -> [t |-> [T1 EXCEPT !.failed = TRUE], out |-> Pending]
               [] res.tag = "Ok" -> [t |-> T1, out |-> Resolve(res.val)]
               [] res.tag = "Err" -> [t |-> T1, out |-> Reject(res.val)]
    ELSE [t |-> T, out |-> Pending]

ThenAfterExecOnErr(T, i) ==
  IF ~IsPending(T.st[i - 1])
    THEN LET res == IntoResult(TakeReturns(T.st[i - 1]))
             T1 == [T EXCEPT !.st[i - 1] = TakeLeaves(@)]
         IN  CASE res.tag = "None" -> [t |-> [T1 EXCEPT !.failed = TRUE], out |-> Pending]
               [] OTHER ->
                    [t |-> [T1 EXCEPT !.gcalls[i] = @ + 1, !.garg[i] = res.val],
                     out |-> Cont(i, res.val)]
    ELSE [t |-> T, out |-> Pending]

ThenAfterExec(T, i) ==
  IF ~IsPending(T.st[i - 1])
    THEN LET res == IntoResult(TakeReturns(T.st[i - 1]))
             T1 == [T EXCEPT !.st[i - 1] = TakeLeaves(@)]
         IN  CASE res.tag = "None" -> [t |-> [T1 EXCEPT !.failed = TRUE], out |-> Pending]
               [] res.tag = "Ok" ->
                    [t |-> [T1 EXCEPT !.gcalls[i] = @ + 1, !.garg[i] = res.val],
                     out |-> Cont(i, res.val)]
               [] res.tag = "Err" -> [t |-> T1, out |-> Reject(res.val)]
    ELSE [t |-> T, out |-> Pending]

\* the closure Task::recover builds, after self.exec(): the same take and
\* unwrap, then Resolve(r) on Ok and the handler on Err (Task::catch is
\* recover with a handler that returns Reject)
RecoverAfterExec(T, i) ==
  IF ~IsPending(T.st[i - 1])
    THEN LET res == IntoResult(TakeReturns(T.st[i - 1]))
             T1 == [T EXCEPT !.st[i - 1] = TakeLeaves(@)]
         IN  CASE res.tag = "None" -> [t |-> [T1 EXCEPT !.failed = TRUE], out |-> Pending]
               [] res.tag = "Ok" -> [t |-> T1, out |-> Resolve(res.val)]
               [] res.tag = "Err" ->
                    [t |-> [T1 EXCEPT !.gcalls[i] = @ + 1, !.garg[i] = res.val],
                     out |-> Cont(i, res.val)]
    ELSE [t |-> T, out |-> Pending]

\* (self.task)() of task i: the state the closure returns, and T after it
StepClosure(T, i) ==
  LET T0 == [T EXCEPT !.calls[i] = @ + 1]
  IN  IF i = 1
        THEN [t |-> [T0 EXCEPT !.count = @ + 1], out |-> LeafOutcome(T.count + 1)]
        ELSE LET E == Exec(T0, i - 1)
             IN  IF E.t.failed THEN [t |-> E.t, out |-> Pending]
                 ELSE IF cfg.op[i] = "recover" THEN RecoverAfterExec(E.t, i)
                 ELSE ThenAfterExec(E.t, i)

\* impl Executable for Task: exec of task i; ret is what exec returns. A
\* closure that panics leaves self.state unassigned.
ExecNoGuard(T, i) ==
  LET S == StepClosure(T, i)
  IN  IF S.t.failed
        THEN [t |-> S.t, ret |-> FALSE]
        ELSE [t |-> [S.t EXCEPT !.st[i] = S.out], ret |-> ~IsPending(S.out)]

Exec(T, i) ==
  IF ~IsPending(T.st[i])
    THEN [t |-> T, ret |-> TRUE]
    ELSE LET S == StepClosure(T, i)
         IN  IF S.t.failed
               THEN [t |-> S.t, ret |-> FALSE]
               ELSE [t |-> [S.t EXCEPT !.st[i] = S.out], ret |-> ~IsPending(S.out)]

\* Task::poll of task i: exec, then None while pending, else
\* self.state.take().into_result()
PollNoTake(T, i) ==
  LET E == Exec(T, i)
  IN  IF E.t.failed THEN [t |-> E.t, ret |-> None]
      ELSE IF IsPending(E.t.st[i]) THEN [t |-> E.t, ret |-> None]
      ELSE [t |-> E.t, ret |-> IntoResult(E.t.st[i])]

Poll(T, i) ==
  LET E == Exec(T, i)
  IN  IF E.t.failed THEN [t |-> E.t, ret |-> None]
      ELSE IF IsPending(E.t.st[i]) THEN [t |-> E.t, ret |-> None]
      ELSE [t |-> [E.t EXCEPT !.st[i] = TakeLeaves(@)],
            ret |-> IntoResult(TakeReturns(E.t.st[i]))]

Chain == [st |-> tstate, count |-> count, calls |-> calls, gcalls |-> gcalls,
          garg |-> garg, order |-> order, failed |-> failed]

SetChain(T) ==
  /\ tstate' = T.st
  /\ count' = T.count
  /\ calls' = T.calls
  /\ gcalls' = T.gcalls
  /\ garg' = T.garg
  /\ order' = T.order
  /\ failed' = T.failed

\* every task of the chain is built (Task::new, then Task::then), none stepped
TaskInit ==
  /\ cfg \in Configs
  /\ tstate = [i \in 1..Len(cfg.g) |-> Pending]
  /\ count = 0
  /\ calls = [i \in 1..Len(cfg.g) |-> 0]
  /\ gcalls = [i \in 1..Len(cfg.g) |-> 0]
  /\ garg = [i \in 1..Len(cfg.g) |-> 0]
  /\ order = <<>>
  /\ last = [op |-> "new", ret |-> None]
  /\ failed = FALSE
  /\ execTrue = 0
  /\ tphase = "run"

\* exec() on the composite (the last task of the chain)
TaskExec ==
  /\ tphase = "run"
  /\ ~failed
  /\ LET E == Exec(Chain, Depth)
     IN  /\ SetChain(E.t)
         /\ last' = [op |-> "exec",
                     ret |-> IF E.t.failed THEN None
                             ELSE [tag |-> IF E.ret THEN "true" ELSE "false", val |-> 0]]
         /\ execTrue' = IF ~E.t.failed /\ E.ret /\ execTrue < 2
                           THEN execTrue + 1 ELSE execTrue
  /\ UNCHANGED <<cfg, tphase, runnerVars>>

\* poll() on the composite
TaskPoll ==
  /\ tphase = "run"
  /\ ~failed
  /\ LET P == Poll(Chain, Depth)
     IN  /\ SetChain(P.t)
         /\ last' = [op |-> "poll", ret |-> P.ret]
  /\ UNCHANGED <<execTrue, cfg, tphase, runnerVars>>

TaskNext == TaskExec \/ TaskPoll

\* the runner is not driven under TaskSpec
TaskSpecInit == TaskInit /\ RunnerInit

TaskSpec == TaskSpecInit /\ [][TaskNext]_vars

\* ---- chains that mix Task::then / map with Task::recover / catch
ChainConfigs ==
  {[k |-> k, out |-> o, val |-> v, g |-> g, op |-> op] :
     k \in 1..MaxCount, o \in {"Resolve", "Reject"}, v \in 1..MaxVal,
     g \in Chains, op \in UNION {[1..n -> Ops] : n \in 1..(MaxThen + 1)}}

\* op[1] stands for no combinator and is left at "then"
ChainSpecInit ==
  /\ cfg \in {c \in ChainConfigs : Len(c.op) = Len(c.g) /\ c.op[1] = "then"}
  /\ tstate = [i \in 1..Len(cfg.g) |-> Pending]
  /\ count = 0
  /\ calls = [i \in 1..Len(cfg.g) |-> 0]
  /\ gcalls = [i \in 1..Len(cfg.g) |-> 0]
  /\ garg = [i \in 1..Len(cfg.g) |-> 0]
  /\ order = <<>>
  /\ last = [op |-> "new", ret |-> None]
  /\ failed = FALSE
  /\ execTrue = 0
  /\ tphase = "run"
  /\ RunnerInit

ChainSpec == ChainSpecInit /\ [][TaskNext]_vars

\* ---- Task::wait on the composite
\* what wait breaks its loop with
WaitReturnsTaken(st) == IntoResult(TakeLeaves(st))

WaitReturns(st) == IntoResult(st)

\* one iteration of wait's loop: exec, then return unless still pending
TaskWait ==
  /\ tphase = "run"
  /\ ~failed
  /\ LET E == Exec(Chain, Depth)
     IN  /\ SetChain(E.t)
         /\ IF ~E.t.failed /\ ~IsPending(E.t.st[Depth])
              THEN /\ last' = [op |-> "wait", ret |-> WaitReturns(E.t.st[Depth])]
                   /\ tphase' = "returned"
              ELSE UNCHANGED <<last, tphase>>
  /\ UNCHANGED <<execTrue, cfg, runnerVars>>

WaitSpec == TaskSpecInit /\ [][TaskWait]_vars

\* ---- a State value on its own
\* tstate[1] is the value (cfg.self at first), cfg.res the argument given to
\* and / or and returned, with the payload added, by the closure given to
\* and_then / or_else.
States ==
  {Pending, Resolved, Rejected} \cup
  {Resolve(v) : v \in 1..MaxVal} \cup {Reject(e) : e \in 1..MaxVal}

MaxTakes == 2

StateSpecInit ==
  /\ cfg \in [self : States, res : States]
  /\ tstate = <<cfg.self>>
  /\ count = 0
  /\ calls = <<>>
  /\ gcalls = <<>>
  /\ garg = <<>>
  /\ order = <<>>
  /\ last = [op |-> "new", ret |-> None]
  /\ failed = FALSE
  /\ execTrue = 0
  /\ tphase = "run"
  /\ RunnerInit

\* the four combinators consume the value: nothing is called on it afterwards
Moved ==
  /\ tphase' = "moved"
  /\ UNCHANGED <<tstate, count, calls, gcalls, garg, order, failed, execTrue,
                 cfg, runnerVars>>

CallAnd ==
  /\ tphase = "run"
  /\ last' = [op |-> "and", ret |-> StateAnd(tstate[1], cfg.res)]
  /\ Moved

CallAndThen ==
  /\ tphase = "run"
  /\ last' = [op |-> "and_then", ret |-> StateAndThen(tstate[1])]
  /\ Moved

CallOr ==
  /\ tphase = "run"
  /\ last' = [op |-> "or", ret |-> StateOr(tstate[1], cfg.res)]
  /\ Moved

CallOrElse ==
  /\ tphase = "run"
  /\ last' = [op |-> "or_else", ret |-> StateOrElse(tstate[1])]
  /\ Moved

\* take works in place, so it can be called again
CallTake ==
  /\ tphase = "run"
  /\ count < MaxTakes
  /\ last' = [op |-> "take", ret |-> TakeReturns(tstate[1])]
  /\ tstate' = <<TakeLeaves(tstate[1])>>
  /\ count' = count + 1
  /\ UNCHANGED <<calls, gcalls, garg, order, failed, execTrue, cfg, tphase,
                 runnerVars>>

StateNext == CallAnd \/ CallAndThen \/ CallOr \/ CallOrElse \/ CallTake

StateSpec == StateSpecInit /\ [][StateNext]_vars

\* ---- a.join(b)
\* Tasks 1 and 2 are a and b, each a Task::new whose closure returns Pending
\* until its cfg.in[i].k-th invocation, which returns Resolve(val) or
\* Reject(val); task 3 is a.join(b).
JoinInputs ==
  [k : 1..MaxCount, out : {"Resolve", "Reject"}, val : 1..MaxVal]

JoinConfigs == {[in |-> <<a, b>>] : a \in JoinInputs, b \in JoinInputs}

\* the closure of input i, invoked for the n-th time
InputOutcome(i, n) ==
  IF n = cfg.in[i].k
    THEN (IF cfg.in[i].out = "Resolve" THEN Resolve(cfg.in[i].val)
                                       ELSE Reject(cfg.in[i].val))
    ELSE Pending

\* exec of input i
JoinInputExec(T, i) ==
  IF ~IsPending(T.st[i])
    THEN T
    ELSE [T EXCEPT !.calls[i] = @ + 1, !.order = Append(@, i),
                   !.st[i] = InputOutcome(i, T.calls[i] + 1)]

\* the first half of the closure Task::join builds: self, then task, each
\* stepped if its state is pending
JoinDriveOtherFirst(T) ==
  LET T1 == IF IsPending(T.st[2]) THEN JoinInputExec(T, 2) ELSE T
  IN  IF IsPending(T1.st[1]) THEN JoinInputExec(T1, 1) ELSE T1

JoinDrive(T) ==
  LET T1 == IF IsPending(T.st[1]) THEN JoinInputExec(T, 1) ELSE T
  IN  IF IsPending(T1.st[2]) THEN JoinInputExec(T1, 2) ELSE T1

\* the second half: self's error, else task's error, else both values, else
\* Pending; a payload is taken only where it is returned
JoinSettleOtherFirst(T) ==
  IF T.st[2].tag = "Reject"
    THEN [t |-> [T EXCEPT !.st[2] = TakeLeaves(@)],
          out |-> Reject(TakeReturns(T.st[2]).val)]
  ELSE IF T.st[1].tag = "Reject"
    THEN [t |-> [T EXCEPT !.st[1] = TakeLeaves(@)],
          out |-> Reject(TakeReturns(T.st[1]).val)]
  ELSE IF T.st[1].tag = "Resolve" /\ T.st[2].tag = "Resolve"
    THEN [t |-> [T EXCEPT !.st[1] = TakeLeaves(@), !.st[2] = TakeLeaves(@)],
          out |-> Resolve(<<TakeReturns(T.st[1]).val, TakeReturns(T.st[2]).val>>)]
  ELSE [t |-> T, out |-> Pending]

JoinSettle(T) ==
  IF T.st[1].tag = "Reject"
    THEN [t |-> [T EXCEPT !.st[1] = TakeLeaves(@)],
          out |-> Reject(TakeReturns(T.st[1]).val)]
  ELSE IF T.st[2].tag = "Reject"
    THEN [t |-> [T EXCEPT !.st[2] = TakeLeaves(@)],
          out |-> Reject(TakeReturns(T.st[2]).val)]
  ELSE IF T.st[1].tag = "Resolve" /\ T.st[2].tag = "Resolve"
    THEN [t |-> [T EXCEPT !.st[1] = TakeLeaves(@), !.st[2] = TakeLeaves(@)],
          out |-> Resolve(<<TakeReturns(T.st[1]).val, TakeReturns(T.st[2]).val>>)]
  ELSE [t |-> T, out |-> Pending]

\* (self.task)() of the join task
JoinClosure(T) == JoinSettle(JoinDrive([T EXCEPT !.calls[3] = @ + 1]))

\* exec of the join task
JoinExecOf(T) ==
  IF ~IsPending(T.st[3])
    THEN [t |-> T, ret |-> TRUE]
    ELSE LET S == JoinClosure(T)
         IN  [t |-> [S.t EXCEPT !.st[3] = S.out], ret |-> ~IsPending(S.out)]

\* poll of the join task
JoinPollOf(T) ==
  LET E == JoinExecOf(T)
  IN  IF IsPending(E.t.st[3]) THEN [t |-> E.t, ret |-> None]
      ELSE [t |-> [E.t EXCEPT !.st[3] = TakeLeaves(@)],
            ret |-> IntoResult(TakeReturns(E.t.st[3]))]

\* a, b and a.join(b) are built, none stepped
JoinSpecInit ==
  /\ cfg \in JoinConfigs
  /\ tstate = <<Pending, Pending, Pending>>
  /\ count = 0
  /\ calls = <<0, 0, 0>>
  /\ gcalls = <<>>
  /\ garg = <<>>
  /\ order = <<>>
  /\ last = [op |-> "new", ret |-> None]
  /\ failed = FALSE
  /\ execTrue = 0
  /\ tphase = "run"
  /\ RunnerInit

\* exec() on the join task
JoinTaskExec ==
  /\ tphase = "run"
  /\ LET E == JoinExecOf([Chain EXCEPT !.order = <<>>])
     IN  /\ SetChain(E.t)
         /\ last' = [op |-> "exec",
                     ret |-> [tag |-> IF E.ret THEN "true" ELSE "false", val |-> 0]]
  /\ UNCHANGED <<execTrue, cfg, tphase, runnerVars>>

\* poll() on the join task
JoinTaskPoll ==
  /\ tphase = "run"
  /\ LET P == JoinPollOf([Chain EXCEPT !.order = <<>>])
     IN  /\ SetChain(P.t)
         /\ last' = [op |-> "poll", ret |-> P.ret]
  /\ UNCHANGED <<execTrue, cfg, tphase, runnerVars>>

JoinNext == JoinTaskExec \/ JoinTaskPoll

JoinSpec == JoinSpecInit /\ [][JoinNext]_vars


\* ============================================================ task: claims

Top == tstate[Depth]

\* C7: the step closure of a task is invoked only while the task's state is
\* Pending, and once an exec call on it has returned true every later exec
\* returns true and no step closure is invoked.
C7_StepOnlyWhilePending ==
  [][/\ \A i \in 1..Depth :
          calls'[i] # calls[i] => IsPending(tstate[i]) /\ calls'[i] = calls[i] + 1
     /\ count' # count => IsPending(tstate[1])
     /\ execTrue >= 1 =>
          /\ calls' = calls /\ count' = count /\ gcalls' = gcalls
          /\ last'.op = "exec" => last'.ret.tag = "true"
    ]_vars

\* C7 witness: exec has returned true on a settled task a second time
C7_Witness == execTrue = 2 /\ ~IsPending(Top) /\ calls[Depth] = cfg.k

\* the changes of state the form Pending*, Resolve|Reject, taken* allows
StatedMoves ==
  {<<"Pending", "Resolve">>, <<"Pending", "Reject">>,
   <<"Resolve", "Resolved">>, <<"Reject", "Rejected">>}

\* the changes of state a poll that settles the task makes in one call
PollMoves == {<<"Pending", "Resolved">>, <<"Pending", "Rejected">>}

\* C8 as stated: the observed state leaves Pending only for Resolve or Reject,
\* Resolve only for Resolved and Reject only for Rejected.
C8_StatedSequence ==
  [][Top' # Top => <<Top.tag, Top'.tag>> \in StatedMoves]_vars

\* C8, amended: the observed state never returns to Pending and never changes
\* sides or payload; it goes Pending, then Resolve or Reject, then the matching
\* taken variant, except that a poll that settles the task hands the payload
\* out in the same call, so that Pending is followed by Resolved (the poll
\* returned success) or Rejected (it returned failure) with no Resolve or
\* Reject observed between.
C8_MonotoneState ==
  [][/\ Top' # Top => <<Top.tag, Top'.tag>> \in StatedMoves \cup PollMoves
     /\ <<Top.tag, Top'.tag>> \in PollMoves =>
          /\ last'.op = "poll"
          /\ last'.ret.tag = (IF Top'.tag = "Resolved" THEN "Ok" ELSE "Err")
     /\ \A i \in 1..Depth :
          tstate'[i] # tstate[i] =>
            <<tstate[i].tag, tstate'[i].tag>> \in StatedMoves \cup PollMoves
    ]_vars

\* C8 witness: a poll settled the task; Resolve was never there to observe
C8_Witness ==
  /\ last.op = "poll" /\ last.ret.tag = "Ok"
  /\ Top = Resolved /\ execTrue = 0 /\ cfg.k > 1

\* g_i(... g_2(r)): what task i resolves to when every task below it resolves
RECURSIVE Composed(_)
Composed(i) == IF i = 1 THEN cfg.val ELSE ContValue(i, Composed(i - 1))

ResolvesUpTo(i) ==
  cfg.out = "Resolve" /\ \A j \in 2..i : cfg.g[j] = "Resolve"

\* what task i - 1 resolved to, given the argument its own continuation got
ResolvedTo(i, args) == IF i = 1 THEN cfg.val ELSE Cont(i, args[i]).val

\* C9: the continuation of t.then(g) is invoked exactly once, on the step at
\* which t resolves, with the value r t resolved to, and when it returns a
\* settled state the composite settles to that state; a chain of resolving
\* continuations resolves to g3(g2(g1(r))).
C9_ThenContinuation ==
  [][\A i \in 2..Depth :
       /\ gcalls'[i] <= 1
       /\ (gcalls'[i] = gcalls[i] + 1) <=>
            (tstate[i - 1].tag = "Pending" /\ tstate'[i - 1].tag = "Resolved")
       /\ gcalls'[i] = gcalls[i] + 1 =>
            /\ garg'[i] = ResolvedTo(i - 1, garg')
            /\ ResolvesUpTo(i) => Cont(i, garg'[i]) = Resolve(Composed(i))
            /\ cfg.g[i] # "Pending" =>
                 IF i < Depth
                   THEN tstate'[i] = TakeLeaves(Cont(i, garg'[i]))
                   ELSE \/ /\ last'.op = "exec" /\ last'.ret.tag = "true"
                           /\ tstate'[i] = Cont(i, garg'[i])
                        \/ /\ last'.op = "poll"
                           /\ last'.ret = IntoResult(Cont(i, garg'[i]))
                           /\ tstate'[i] = TakeLeaves(Cont(i, garg'[i]))
    ]_vars

\* C9 witness: three resolving continuations on a task that resolved on its
\* second step; each was invoked once and the chain holds g4(g3(g2(r)))
C9_Witness ==
  /\ Depth = 4 /\ ResolvesUpTo(4) /\ cfg.k = 2
  /\ Top = Resolve(Composed(4))
  /\ gcalls = <<0, 1, 1, 1>>

\* C10: when t resolves and the continuation of t.then(g) returns Pending,
\* the composite is Pending after that step and every later exec or poll of
\* the composite completes normally.
C10_PendingContinuation ==
  \A i \in 2..Depth :
    (cfg.g[i] = "Pending" /\ gcalls[i] >= 1) => ~failed

\* what the combinators are said to make of the chain up to task i: the state
\* task i settles to, Pending when it never settles
RECURSIVE Outcome(_)
Outcome(i) ==
  IF i = 1
    THEN (IF cfg.out = "Resolve" THEN Resolve(cfg.val) ELSE Reject(cfg.val))
    ELSE LET below == Outcome(i - 1)
         IN  CASE below.tag = "Pending" -> Pending
               [] below.tag = "Resolve" ->
                    IF cfg.op[i] = "then" THEN Cont(i, below.val) ELSE below
               [] below.tag = "Reject" ->
                    IF cfg.op[i] = "then" THEN below ELSE Cont(i, below.val)

\* task i - 1 rejects on this step (its parent takes the error at once)
InputRejects(i) ==
  tstate[i - 1].tag = "Pending" /\ tstate'[i - 1].tag = "Rejected"

\* task i - 1 resolves on this step
InputResolves(i) ==
  tstate[i - 1].tag = "Pending" /\ tstate'[i - 1].tag = "Resolved"

\* the composite shows the settled state s after this step: exec leaves s in
\* place, poll hands s out and leaves the taken variant
TopSettlesTo(s) ==
  \/ /\ last'.op = "exec" /\ last'.ret.tag = "true" /\ Top' = s
  \/ /\ last'.op = "poll" /\ last'.ret = IntoResult(s) /\ Top' = TakeLeaves(s)

\* C11: when the input of t.then(g) or t.map(f) rejects with e, the
\* continuation is never invoked and the composite rejects with the same e on
\* that step; along a chain of thens the error arrives unchanged at the first
\* recover or catch, whose handler is invoked with it, or at the end of the
\* chain.
C11_RejectionPropagates ==
  [][\A i \in 2..Depth :
       InputRejects(i) =>
         /\ Outcome(i - 1).tag = "Reject"
         /\ cfg.op[i] = "then" =>
              /\ gcalls[i] = 0 /\ gcalls'[i] = 0
              /\ Outcome(i) = Outcome(i - 1)
              /\ IF i < Depth THEN tstate'[i] = Rejected
                              ELSE TopSettlesTo(Reject(Outcome(i - 1).val))
         /\ cfg.op[i] = "recover" =>
              /\ gcalls'[i] = gcalls[i] + 1
              /\ garg'[i] = Outcome(i - 1).val
    ]_vars

\* C11 witness: the first task rejected on its second step, two thens passed
\* the error on without running their continuations, and the recover above
\* them got that error and resolved
C11_Witness ==
  /\ Depth = 4 /\ cfg.out = "Reject" /\ cfg.k = 2
  /\ cfg.op = <<"then", "then", "then", "recover">> /\ cfg.g[4] = "Resolve"
  /\ gcalls = <<0, 0, 0, 1>> /\ garg[4] = cfg.val
  /\ Top = Resolve(ContValue(4, cfg.val))

\* C12: for t.recover(h), when t resolves to r the composite resolves to r and
\* h is not invoked; when t rejects with e, h is invoked with e and the
\* composite adopts h(e), and when h(e) is Pending the later steps of the
\* composite complete normally.
C12_RecoverAdopts ==
  [][\A i \in 2..Depth :
       cfg.op[i] = "recover" =>
         /\ InputResolves(i) =>
              /\ gcalls'[i] = gcalls[i]
              /\ IF i < Depth THEN tstate'[i] = Resolved
                              ELSE TopSettlesTo(Outcome(i - 1))
         /\ InputRejects(i) =>
              /\ gcalls'[i] = gcalls[i] + 1
              /\ garg'[i] = Outcome(i - 1).val
              /\ IF i < Depth THEN tstate'[i] = TakeLeaves(Cont(i, garg'[i]))
                 ELSE IF cfg.g[i] = "Pending" THEN Top' = Pending
                 ELSE TopSettlesTo(Cont(i, garg'[i]))
         /\ (cfg.g[i] = "Pending" /\ gcalls[i] >= 1) => ~failed'
    ]_vars

\* ---- join
JTop == tstate[3]

Same(s, t) == s.tag = t.tag /\ s.val = t.val

HasResolved(st) == st.tag \in {"Resolve", "Resolved"}
HasRejected(st) == st.tag \in {"Reject", "Rejected"}

\* the join task shows the settled state s after this step
JoinSettlesTo(s) ==
  \/ /\ last'.op = "exec" /\ last'.ret.tag = "true" /\ Same(JTop', s)
  \/ /\ last'.op = "poll" /\ Same(last'.ret, IntoResult(s))
     /\ Same(JTop', TakeLeaves(s))

JoinStaysPending ==
  /\ IsPending(JTop')
  /\ last'.ret.tag = (IF last'.op = "exec" THEN "false" ELSE "None")

\* C13: a.join(b) settles to Resolve((x, y)) exactly when a has resolved to x
\* and b to y, on whichever steps; it settles to Reject(e) on the first step
\* after which an input has rejected, with a's error when both have; otherwise
\* it is Pending.
C13_JoinSettles ==
  [][/\ IsPending(JTop) =>
          /\ ~HasRejected(tstate[1]) /\ ~HasRejected(tstate[2])
          /\ ~(HasResolved(tstate[1]) /\ HasResolved(tstate[2]))
          /\ IF HasRejected(tstate'[1])
                THEN JoinSettlesTo(Reject(cfg.in[1].val))
              ELSE IF HasRejected(tstate'[2])
                THEN JoinSettlesTo(Reject(cfg.in[2].val))
              ELSE IF HasResolved(tstate'[1]) /\ HasResolved(tstate'[2])
                THEN JoinSettlesTo(Resolve(<<cfg.in[1].val, cfg.in[2].val>>))
              ELSE JoinStaysPending
     /\ ~IsPending(JTop) =>
          /\ tstate'[1] = tstate[1] /\ tstate'[2] = tstate[2]
          /\ HasResolved(JTop') = HasResolved(JTop)
          /\ HasRejected(JTop') = HasRejected(JTop)
    ]_vars

\* C13 witness: a resolved on the first join step, b on the second, and the
\* join task holds the pair
C13_Witness ==
  /\ cfg.in[1].k = 1 /\ cfg.in[2].k = 2
  /\ calls = <<1, 2, 2>>
  /\ Same(JTop, Resolve(<<cfg.in[1].val, cfg.in[2].val>>))
  /\ tstate[1] = Resolved /\ tstate[2] = Resolved

\* the inputs a join step has to invoke, in order
DueOrder ==
  (IF IsPending(tstate[1]) THEN <<1>> ELSE <<>>) \o
  (IF IsPending(tstate[2]) THEN <<2>> ELSE <<>>)

InOrder(i, o) == \E n \in 1..Len(o) : o[n] = i

\* C14: in every step of a join task the step closure of self is invoked, if
\* self is still Pending, before that of other, if other is still Pending,
\* each at most once, and a settled input is not stepped again.
C14_JoinOrder ==
  [][/\ order' = (IF IsPending(JTop) THEN DueOrder ELSE <<>>)
     /\ \A i \in {1, 2} :
          calls'[i] = calls[i] + (IF InOrder(i, order') THEN 1 ELSE 0)
    ]_vars

\* C14 witness: the first join step invoked a then b and a settled; the second
\* invoked b alone
C14_Witness ==
  /\ order = <<2>> /\ calls = <<1, 2, 2>>
  /\ ~IsPending(tstate[1]) /\ ~IsPending(tstate[2])

\* ---- wait
\* C15: wait() on a fresh task whose step closure returns Pending k - 1 times
\* and then Resolve(v) or Reject(e) invokes the closure exactly k times and
\* returns success(v) or failure(e); Task::from(v).wait() returns success(v)
\* after one invocation.
C15_WaitCounts ==
  /\ count <= cfg.k
  /\ tphase = "returned" =>
       /\ last.op = "wait"
       /\ calls[Depth] = cfg.k /\ count = cfg.k
       /\ last.ret = IntoResult(Outcome(Depth))
       /\ last.ret.tag # "None"
       /\ Depth = 1 =>
            last.ret = (IF cfg.out = "Resolve" THEN SomeOk(cfg.val)
                                              ELSE SomeErr(cfg.val))

\* C15 witness: wait returned success(v) from a task that resolved on the
\* second invocation of its closure
C15_Witness ==
  /\ tphase = "returned" /\ Depth = 1 /\ cfg.k = 2 /\ cfg.out = "Resolve"
  /\ count = 2 /\ last.ret = SomeOk(cfg.val)

\* ---- poll
\* this step is a poll call that returned
PollReturned == last'.op = "poll" /\ ~failed'

\* C16 as stated: poll invokes the step closure at most once per call and
\* returns a result exactly when that call settled the task.
C16_PollWhenSettling ==
  [][PollReturned =>
       /\ calls'[Depth] <= calls[Depth] + 1
       /\ (last'.ret.tag # "None") <=> (IsPending(Top) /\ ~IsPending(Top'))
    ]_vars

\* C16, amended: poll invokes the step closure at most once per call, and only
\* while the task is Pending; a call that returns hands out a result exactly
\* when it finds a payload in place after its step: the call whose step
\* returns Resolve(v) or Reject(e), or the first poll after an exec call
\* settled the task (a poll that invokes no closure). It returns nothing while
\* the task stays Pending and on every call after the payload was handed out.
C16_PollHandsOutOnce ==
  [][PollReturned =>
       /\ calls'[Depth] <= calls[Depth] + 1
       /\ calls'[Depth] # calls[Depth] => IsPending(Top)
       /\ CASE IsPending(Top) ->
                 IF IsPending(Top')
                   THEN last'.ret = None
                   ELSE /\ last'.ret = IntoResult(Outcome(Depth))
                        /\ last'.ret.tag # "None"
                        /\ Top' = TakeLeaves(Outcome(Depth))
            [] Top.tag \in {"Resolve", "Reject"} ->
                 /\ last'.ret = IntoResult(Top)
                 /\ Top' = TakeLeaves(Top)
                 /\ calls' = calls
            [] Top.tag \in {"Resolved", "Rejected"} ->
                 /\ last'.ret = None
                 /\ Top' = Top
                 /\ calls' = calls
    ]_vars

\* C16 witness: exec settled the task, and the poll after it, which invoked
\* no closure, returned the payload
C16_Witness ==
  /\ last.op = "poll" /\ last.ret.tag = "Ok"
  /\ execTrue >= 1 /\ Top = Resolved /\ calls[Depth] = cfg.k

\* ---- State
Unsettled3 == {"Pending", "Resolved", "Rejected"}

\* C17: and, and_then, or, or_else return a Pending, Resolved or Rejected
\* receiver as it is, whatever the argument; and / and_then return the
\* receiver's Reject(e) and, on Resolve, the argument's outcome; or / or_else
\* return the receiver's Resolve(r) and, on Reject, the argument's outcome.
C17_CombinatorsPropagate ==
  LET st == tstate[1]
  IN  /\ last.op \in {"and", "and_then", "or", "or_else"} =>
           (st.tag \in Unsettled3 => last.ret = st)
      /\ last.op \in {"and", "and_then"} =>
           /\ st.tag = "Reject" => last.ret = st
           /\ st.tag = "Resolve" =>
                last.ret = (IF last.op = "and" THEN cfg.res ELSE ArgOp(st.val))
      /\ last.op \in {"or", "or_else"} =>
           /\ st.tag = "Resolve" => last.ret = st
           /\ st.tag = "Reject" =>
                last.ret = (IF last.op = "or" THEN cfg.res ELSE ArgOp(st.val))

\* C18: take on Resolve(v) returns Resolve(v) and leaves Resolved, on
\* Reject(e) returns Reject(e) and leaves Rejected; on Pending, Resolved and
\* Rejected it returns the state and leaves it as it is; a take after a
\* payload was extracted yields no payload.
C18_TakeOnce ==
  [][count' = count + 1 =>
       LET st == tstate[1]
       IN  /\ last'.op = "take"
           /\ st.tag = "Resolve" => last'.ret = Resolve(st.val) /\ tstate'[1] = Resolved
           /\ st.tag = "Reject" => last'.ret = Reject(st.val) /\ tstate'[1] = Rejected
           /\ st.tag \in Unsettled3 => last'.ret = st /\ tstate'[1] = st
           /\ count >= 1 => last'.ret.tag \in Unsettled3
    ]_vars

\* C18 witness: the first take extracted Resolve(v), the second returned
\* Resolved
C18_Witness ==
  /\ cfg.self.tag = "Resolve" /\ count = 2
  /\ last = [op |-> "take", ret |-> Resolved] /\ tstate[1] = Resolved

\* ---- TaskQueue::split
\* C19: split on a queue of n items, nothing else touching the queue: for
\* n < 2 it returns an empty batch and leaves the queue as it is; for n >= 2
\* it returns the last n - floor(n/2) items in queue order and leaves the
\* first floor(n/2).
C19_SplitHalves ==
  [][LET q == queues[1]
         n == Len(q)
         h == n \div 2
     IN  /\ wpc[1] = "split_read" =>
              /\ queues' = queues
              /\ poisoned' = poisoned
              /\ IF n < 2 THEN wpc'[1] = "is_running" /\ batch'[1] = <<>>
                          ELSE wpc'[1] = "split_write"
         /\ wpc[1] = "split_write" =>
              /\ n >= 2
              /\ wpc'[1] = "append"
              /\ poisoned' = poisoned
              /\ Len(batch'[1]) = n - h
              /\ \A j \in 1..(n - h) : batch'[1][j] = q[h + j]
              /\ Len(queues'[1]) = h
              /\ \A j \in 1..h : queues'[1][j] = q[j]
    ]_vars

\* C19 witness: split of a queue of three items returned the last two and
\* left the first
C19_Witness ==
  /\ wpc[1] = "append" /\ tphase = "off" /\ wpc[2] = "exited"
  /\ Len(batch[1]) = 2 /\ Len(queues[1]) = 1

\* ---- TaskQueueSet::steal_from_rand_queue
\* worker w is inside split() on the queue its scan found with length > 1
InSplit(w) == wpc[w] \in {"split_read", "split_write"}

\* C20 as stated: whenever the scan of steal_from_rand_queue finds a queue of
\* two or more tasks, the call returns a non-empty batch, whatever the other
\* threads do meanwhile.
C20_FoundMeansBatch ==
  [][\A w \in Workers :
       (InSplit(w) /\ wpc'[w] # wpc[w]) => wpc'[w] \in {"split_write", "append"}
    ]_vars

\* C20, amended: the call returns an empty batch when every queue had length
\* <= 1 at the moment it was inspected. When the scan finds a queue q of
\* length > 1 the outcome is that of q.split() on q as it is by then: an empty
\* batch when q holds fewer than two tasks at split's read or exactly
\* midpoint tasks at its write, a panic when q holds fewer than midpoint tasks
\* or its lock is poisoned, and otherwise the non-empty batch of the tasks
\* behind the midpoint.
C20_StealOutcome ==
  [][\A w \in Workers :
       /\ (wpc[w] = "steal" /\ wpc'[w] = "steal" /\ toScan'[w] # toScan[w]) =>
            \E q \in toScan[w] :
              toScan'[w] = toScan[w] \ {q} /\ Len(queues[q]) <= 1
       /\ (wpc[w] = "steal" /\ wpc'[w] = "is_running") =>
            \E q \in toScan[w] : toScan[w] = {q} /\ Len(queues[q]) <= 1
       /\ (wpc[w] = "steal" /\ wpc'[w] = "split_read") =>
            victim'[w] \in toScan[w] /\ Len(queues[victim'[w]]) > 1
       /\ (wpc[w] = "split_read" /\ wpc'[w] # wpc[w]) =>
            LET q == queues[victim[w]]
            IN  CASE poisoned[victim[w]] -> wpc'[w] = "panicked"
                  [] ~poisoned[victim[w]] /\ Len(q) < 2 ->
                       wpc'[w] = "is_running" /\ batch'[w] = <<>>
                  [] OTHER -> wpc'[w] = "split_write"
       /\ (wpc[w] = "split_write" /\ wpc'[w] # wpc[w]) =>
            LET q == queues[victim[w]]
            IN  CASE poisoned[victim[w]] \/ Len(q) < midpoint[w] ->
                       wpc'[w] = "panicked"
                  [] ~poisoned[victim[w]] /\ Len(q) = midpoint[w] ->
                       wpc'[w] = "is_running" /\ batch'[w] = <<>>
                  [] OTHER ->
                       /\ wpc'[w] = "append"
                       /\ batch'[w] = SubSeq(q, midpoint[w] + 1, Len(q))
                       /\ Len(batch'[w]) > 0
    ]_vars

\* C20 witness: the scan of worker w found a queue of two or more tasks, and
\* by split's read that queue holds fewer than two, so the call returns empty
C20_Witness ==
  \E w \in Workers :
    /\ wpc[w] = "split_read" /\ victim[w] # w
    /\ ~poisoned[victim[w]] /\ Len(queues[victim[w]]) < 2

\* ---- order within a queue
\* the items of s that are in set T, in the order of s
Restrict(s, T) ==
  LET In(t) == t \in T IN SelectSeq(s, In)

\* s is a prefix of t
IsPrefix(s, t) == Len(s) <= Len(t) /\ SubSeq(t, 1, Len(s)) = s

\* C21: the owner takes the oldest item of its queue; insert and append add
\* at the tail; a steal removes a contiguous suffix of the victim's queue and
\* appends it, in the same order, to the thief's tail; no step changes the
\* relative order of the tasks that stay in a queue.
C21_QueueOrder ==
  [][\A w \in Workers :
       /\ queues'[w] # queues[w] =>
            /\ Restrict(queues[w], Range(queues'[w]))
                 = Restrict(queues'[w], Range(queues[w]))
            /\ Len(queues'[w]) > Len(queues[w]) => IsPrefix(queues[w], queues'[w])
            /\ Len(queues'[w]) < Len(queues[w]) =>
                 \/ IsPrefix(queues'[w], queues[w])
                 \/ queues'[w] = Tail(queues[w])
       /\ (wpc[w] = "next" /\ wpc'[w] = "exec") =>
            queues[w] = <<held'[w]>> \o queues'[w]
       /\ (batch'[w] # batch[w] /\ batch'[w] # <<>>) =>
            /\ wpc[w] = "split_write"
            /\ queues[victim[w]] = queues'[victim[w]] \o batch'[w]
       /\ (wpc[w] = "append" /\ wpc'[w] = "next") =>
            queues'[w] = queues[w] \o batch[w]
    ]_vars

\* C21 witness: a steal took a suffix of two tasks, in queue order, and is
\* about to append it behind a task that is already in the thief's queue
C21_Witness ==
  \E w \in Workers :
    /\ wpc[w] = "append" /\ Len(batch[w]) = 2 /\ batch[w][1] < batch[w][2]
    /\ Len(queues[w]) >= 1 /\ ~poisoned[w]

\* C24: the batch a split() removes is never larger than ceil(n/2), n being
\* the length of the victim queue when the items are removed.
C24_AtMostHalf ==
  [][\A w \in Workers :
       (wpc[w] = "split_write" /\ batch'[w] # batch[w]) =>
         2 * Len(batch'[w]) <= Len(queues[victim[w]]) + 1
    ]_vars


\* ---- locks held and locks asked for
\* C22: a worker inside a task's exec call holds no lock; between two
\* operations the only guard alive anywhere is the TaskQueueSet read guard of
\* a worker inside steal_from_rand_queue: queue locks and flag locks last for
\* one enqueue, dequeue, split, length read or flag access.
C22_NoLockInExec ==
  /\ locks[MainThread] = {}
  /\ \A w \in Workers :
       /\ wpc[w] = "exec" => locks[w] = {}
       /\ locks[w] # {} =>
            /\ wpc[w] \in {"steal", "split_read", "split_write"}
            /\ locks[w] = {SetLock("r")}

\* C22 witness: a worker is inside exec on a task that came off its queue
\* while another worker, holding the set's read guard, is about to take
\* the write lock of that same queue to split it.
C22_Witness ==
  \E w, u \in Workers :
    /\ wpc[w] = "exec" /\ held[w] # NoTask /\ locks[w] = {}
    /\ wpc[u] = "split_write" /\ victim[u] = w /\ locks[u] = {SetLock("r")}

\* the locks the next step of thread t asks for
Requests(t) ==
  IF t = MainThread
    THEN IF mainPc = "run" /\ submitted < MaxTasks
           THEN {SetLock("r")} \cup {QueueLock(q, "w") : q \in Workers}
           ELSE IF mainPc = "finish_flag" THEN {FlagLock(finIdx)} ELSE {}
    ELSE IF wpc[t] \in {"next", "append"} THEN {QueueLock(t, "w")}
         ELSE IF wpc[t] = "steal"
           THEN {SetLock("r")} \cup {QueueLock(q, "r") : q \in toScan[t]}
         ELSE IF wpc[t] = "split_read" THEN {QueueLock(victim[t], "r")}
         ELSE IF wpc[t] = "split_write" THEN {QueueLock(victim[t], "w")}
         ELSE IF wpc[t] = "is_running" THEN {FlagLock(t)}
         ELSE {}

\* t is blocked on a lock that u holds
WaitsFor(t, u) ==
  /\ t # u
  /\ \E a \in Requests(t), b \in locks[u] : Conflicts(a, b)

\* the threads of a circle all hold a lock
CircularWait ==
  \E S \in SUBSET {t \in Threads : locks[t] # {}} :
    /\ S # {}
    /\ \A t \in S : \E u \in S : WaitsFor(t, u)

\* C23: no set of threads waits in a circle for each other's locks; no thread
\* holds a queue lock while it asks for another lock, and a worker about to
\* take its own queue's lock in append has the batch of the split of the
\* victim's queue and holds no lock.
C23_NoCircularWait ==
  /\ ~CircularWait
  /\ \A t \in Threads : \A b \in locks[t] : b.obj[1] # "queue"
  /\ \A w \in Workers :
       wpc[w] = "append" => (batch[w] # <<>> /\ locks[w] = {})

\* C23 witness: both workers have come out of a split with a batch and each is
\* about to take the write lock of its own queue, while the submitting thread
\* can still ask for the set's lock and a queue's lock.
C23_Witness ==
  /\ \A w \in Workers : wpc[w] = "append" /\ batch[w] # <<>> /\ locks[w] = {}
  /\ mainPc = "run" /\ submitted < MaxTasks

=============================================================================
